---- MODULE Spec2Model ----
(***************************************************************************)
(* Model of the DeserializeOrdered derive macro (json-array-derive) and of *)
(* the visit_seq routine it generates.                                     *)
(*                                                                         *)
(* A run of the model is one build of a crate followed by the decode calls *)
(* of its main: the macro is expanded for every record type of the crate,  *)
(* field by field, and then each type decodes one JSON array.              *)
(***************************************************************************)
EXTENDS Integers, Sequences, FiniteSets, TLC

\* Bounds of the model.
MaxPos == 2      \* largest index written in an #[order(n)] attribute
MaxLen == 3      \* elements per input array

VARIABLES
    src,            \* the record types of the crate: per type, its fields with their attributes
    input,          \* per type, the JSON array its decode call is given
    genT,           \* the type the macro is being expanded for (Len(src) + 1: all expanded)
    genF,           \* the field the loop of the expansion is at
    field_info,     \* per type, the (field_name, field_type, index) triples pushed so far
    max_index,      \* per type, the #max_index spliced into the generated code
    impls,          \* the types a Deserialize impl has been generated for
    build,          \* "expanding", "ok", or "panic" (compilation aborted)
    panic,          \* the panic message of the macro, if any
    cur,            \* the decode call main is at (Len(src) + 1: main has returned)
    st,             \* per call, where visit_seq is
    array_elements, \* per call, the Vec<serde_json::Value> of visit_seq
    index,          \* per call, the running index of visit_seq
    fidx,           \* per call, the field initializer being evaluated
    partial,        \* per call, the field values evaluated so far
    written,        \* per call, the indices array_elements was assigned at
    out             \* per call, what deserialize returned

vars == <<src, input, genT, genF, field_info, max_index, impls, build, panic,
          cur, st, array_elements, index, fidx, partial, written, out>>

genVars == <<genT, genF, field_info, max_index, impls, build, panic>>
callVars == <<cur, st, array_elements, index, fidx, partial, written, out>>

----------------------------------------------------------------------------
\* serde_json::Value, as far as the decoder looks at it.

Null == [kind |-> "Null", n |-> 0, frac |-> 0, s |-> ""]
PosInt(k) == [kind |-> "PosInt", n |-> k, frac |-> 0, s |-> ""]
Float(k, f) == [kind |-> "Float", n |-> k, frac |-> f, s |-> ""]
Str(t) == [kind |-> "String", n |-> 0, frac |-> 0, s |-> t]

Values == {Null, PosInt(42), Float(1, 75), Str("Bob")}

\* The fields a record type is built from (name and Rust type).
FieldPool == << [name |-> "id", ty |-> "i32"],
                [name |-> "name", ty |-> "String"],
                [name |-> "height", ty |-> "f64"] >>

\* Attributes of a field. lit describes the token inside the parentheses.
OrderAttr(k) == [path |-> "order", meta |-> "List", lit |-> "Int", neg |-> FALSE, fits |-> TRUE, n |-> k]
OrderStr == [path |-> "order", meta |-> "List", lit |-> "Str", neg |-> FALSE, fits |-> TRUE, n |-> 0]
OrderNeg == [path |-> "order", meta |-> "List", lit |-> "Int", neg |-> TRUE, fits |-> TRUE, n |-> 1]
OrderBig == [path |-> "order", meta |-> "List", lit |-> "Int", neg |-> FALSE, fits |-> FALSE, n |-> 0]
OrderNameValue == [path |-> "order", meta |-> "NameValue", lit |-> "Int", neg |-> FALSE, fits |-> TRUE, n |-> 0]
DocAttr == [path |-> "doc", meta |-> "NameValue", lit |-> "Str", neg |-> FALSE, fits |-> TRUE, n |-> 0]

----------------------------------------------------------------------------
\* Option<T> is a set with at most one element.
Some(x) == {x}
None == {}
Unwrap(o) == CHOOSE x \in o : TRUE

Max(S) == CHOOSE x \in S : \A y \in S : y <= x

Range(s) == {s[i] : i \in DOMAIN s}

\* field.attrs.iter().find(|attr| attr.path().is_ident("order"))
find_order_attr(attrs) ==
    LET hits == {i \in DOMAIN attrs : attrs[i].path = "order"}
    IN  IF hits = {} THEN None ELSE Some(attrs[CHOOSE i \in hits : \A j \in hits : i <= j])


\* lit_int.base10_parse::<usize>().ok(): the digits, unless signed or too large
base10_parse(a) == IF a.neg \/ ~a.fits THEN None ELSE Some(a.n)

extract_order_index(attr) ==
    IF attr.meta # "List" THEN None
    ELSE IF attr.lit = "Int" THEN base10_parse(attr)
    ELSE None

\* A planner that asks nothing of a record type without fields.
MaxIndexOfNoFields(info) ==
    IF info = <<>> THEN -1 ELSE Max({info[i].index : i \in DOMAIN info})

\* field_info.iter().map(|(_, _, index)| *index).max().unwrap_or(0)
MaxIndexOf(info) ==
    IF info = <<>> THEN 0 ELSE Max({info[i].index : i \in DOMAIN info})

----------------------------------------------------------------------------
\* serde_json::from_value::<T>(value): the typed value, or the cause of the failure.
\* A typed value is [ty, n, frac, s]; an i32 takes an integer in range, an f64 any
\* number (an integer becomes the float of the same value), a String a string.
Typed(ty, k, f, t) == [ty |-> ty, n |-> k, frac |-> f, s |-> t]
ConvOk(tv) == [ok |-> TRUE, val |-> tv, cause |-> ""]
ConvErr(ty, why) == [ok |-> FALSE, val |-> Typed(ty, 0, 0, ""), cause |-> why]

ToI32(v) ==
    IF v.kind = "PosInt"
    THEN IF v.n <= 2147483647 THEN ConvOk(Typed("i32", v.n, 0, ""))
         ELSE ConvErr("i32", "invalid value")
    ELSE ConvErr("i32", "invalid type")
ToF64(v) ==
    IF v.kind = "PosInt" THEN ConvOk(Typed("f64", v.n, 0, ""))
    ELSE IF v.kind = "Float" THEN ConvOk(Typed("f64", v.n, v.frac, ""))
    ELSE ConvErr("f64", "invalid type")
ToStringTy(v) ==
    IF v.kind = "String" THEN ConvOk(Typed("String", 0, 0, v.s))
    ELSE ConvErr("String", "invalid type")

\* A conversion that coerces: null becomes the default value of the type.
from_value_or_default(ty, v) ==
    IF v.kind = "Null" THEN ConvOk(Typed(ty, 0, 0, ""))
    ELSE CASE ty = "i32" -> ToI32(v) [] ty = "f64" -> ToF64(v) [] ty = "String" -> ToStringTy(v)

from_value(ty, v) ==
    CASE ty = "i32" -> ToI32(v) [] ty = "f64" -> ToF64(v) [] ty = "String" -> ToStringTy(v)

\* What a decode call returns.
NoErr == [kind |-> "none", field |-> "", index |-> 0, got |-> 0, need |-> 0, cause |-> ""]
\* An expecting() that prints max_index instead of max_index + 1.
InvalidLengthOfMax(idx, M) ==
    [kind |-> "invalid_length", field |-> "", index |-> 0, got |-> idx, need |-> M, cause |-> ""]

\* serde::de::Error::invalid_length(index, &self), self expecting
\* "a JSON array with at least {max_index + 1} elements"
InvalidLength(idx, M) ==
    [kind |-> "invalid_length", field |-> "", index |-> 0, got |-> idx, need |-> M + 1, cause |-> ""]
\* serde::de::Error::custom("Failed to deserialize field `{}` at index {}: {}")
FieldError(fi, why) ==
    [kind |-> "custom", field |-> fi.name, index |-> fi.index, got |-> 0, need |-> 0, cause |-> why]

Pending == [tag |-> "Pending", value |-> {}, err |-> NoErr]
Ok(rec) == [tag |-> "Ok", value |-> rec, err |-> NoErr]
Err(e) == [tag |-> "Err", value |-> {}, err |-> e]

\* vec![serde_json::Value::Null; max_index + 1]
AllocElements(M) == [i \in 1..(M + 1) |-> Null]

\* A loop body that compares with < : the last slot is never assigned.
StoreElementBelowMax(arr, idx, M, v) ==
    IF idx < M THEN [arr EXCEPT ![idx + 1] = v] ELSE arr

\* A loop body that writes every element, wrapping around the buffer.
StoreElementWrapping(arr, idx, M, v) ==
    [arr EXCEPT ![(idx % (M + 1)) + 1] = v]

\* if index <= max_index { array_elements[index] = value; }
StoreElement(arr, idx, M, v) ==
    IF idx <= M THEN [arr EXCEPT ![idx + 1] = v] ELSE arr

\* A length check that compares with < : max_index elements are enough.
TooShortBelowMax(idx, M) == idx < M

\* if index <= max_index { return Err(invalid_length) }
TooShort(idx, M) == idx <= M

\* A read of the slot before the one the field names.
ElementAtPrevious(arr, idx) == arr[IF idx = 0 THEN 1 ELSE idx]

\* &array_elements[idx]
ElementAt(arr, idx) == arr[idx + 1]

\* A mapping that reads the fields in the order they are declared.
FieldSlotDeclared(info, k) == k - 1

\* let idx = *index; the index spliced into the k-th field initializer
FieldSlot(info, k) == info[k].index

\* A loop that leaves before the last element.
ExhaustedEarly(idx, inp) == idx >= Len(inp) - 1

\* seq.next_element() returns None: the input has no element left
Exhausted(idx, inp) == idx = Len(inp)

\* The indices the assignment of the loop body writes for the element at idx.
Touched(arr, idx, M) ==
    {i \in 0..(Len(arr) - 1) :
        StoreElement(arr, idx, M, Null)[i + 1] # StoreElement(arr, idx, M, PosInt(0))[i + 1]}

----------------------------------------------------------------------------
\* The macro: deserialize_ordered, expanded for the record types in turn.

NoPanic == [kind |-> "none", field |-> ""]
\* panic!("Field `{}` is missing #[order(n)] attribute", field_name)
MissingOrder(f) == [kind |-> "missing", field |-> f.name]
\* panic!("Invalid #[order(n)] attribute for field `{}`", field_name)
InvalidOrder(f) == [kind |-> "invalid", field |-> f.name]

Types == DOMAIN src
Expanding == build = "expanding" /\ genT \in Types
InLoop == Expanding /\ genF \in DOMAIN src[genT]
Field == src[genT][genF]

\* One iteration of `for field in fields` that ends in the first unwrap_or_else.
PanicMissing ==
    /\ InLoop
    /\ find_order_attr(Field.attrs) = None
    /\ build' = "panic"
    /\ panic' = MissingOrder(Field)
    /\ UNCHANGED <<src, input, genT, genF, field_info, max_index, impls>>
    /\ UNCHANGED callVars

\* One iteration that ends in the second unwrap_or_else.
PanicInvalid ==
    /\ InLoop
    /\ find_order_attr(Field.attrs) # None
    /\ extract_order_index(Unwrap(find_order_attr(Field.attrs))) = None
    /\ build' = "panic"
    /\ panic' = InvalidOrder(Field)
    /\ UNCHANGED <<src, input, genT, genF, field_info, max_index, impls>>
    /\ UNCHANGED callVars

\* One iteration that reaches field_info.push((field_name, field_type, index)).
PushField ==
    /\ InLoop
    /\ find_order_attr(Field.attrs) # None
    /\ extract_order_index(Unwrap(find_order_attr(Field.attrs))) # None
    /\ field_info' = [field_info EXCEPT ![genT] = Append(@,
            [name |-> Field.name, ty |-> Field.ty,
             index |-> Unwrap(extract_order_index(Unwrap(find_order_attr(Field.attrs))))])]
    /\ genF' = genF + 1
    /\ UNCHANGED <<src, input, genT, max_index, impls, build, panic>>
    /\ UNCHANGED callVars

\* After the loop: max_index, field_mapping, and the impl returned as a token stream.
EmitImpl ==
    /\ Expanding
    /\ genF = Len(src[genT]) + 1
    /\ max_index' = [max_index EXCEPT ![genT] = MaxIndexOf(field_info[genT])]
    /\ impls' = impls \cup {genT}
    /\ genT' = genT + 1
    /\ genF' = 1
    /\ UNCHANGED <<src, input, field_info, build, panic>>
    /\ UNCHANGED callVars

\* Every derive of the crate has expanded: the crate compiles and main runs.
BuildDone ==
    /\ build = "expanding"
    /\ genT = Len(src) + 1
    /\ build' = "ok"
    /\ UNCHANGED <<src, input, genT, genF, field_info, max_index, impls, panic>>
    /\ UNCHANGED callVars

----------------------------------------------------------------------------
\* The generated visit_seq, one call per record type, in the order of main.

Running == build = "ok" /\ cur \in Types /\ cur \in impls
M == max_index[cur]
Info == field_info[cur]

\* let mut array_elements = vec![Null; max_index + 1]; let mut index = 0;
BeginVisit ==
    /\ Running
    /\ st[cur] = "Idle"
    /\ st' = [st EXCEPT ![cur] = "Reading"]
    /\ array_elements' = [array_elements EXCEPT ![cur] = AllocElements(M)]
    /\ index' = [index EXCEPT ![cur] = 0]
    /\ UNCHANGED <<src, input, cur, fidx, partial, written, out>>
    /\ UNCHANGED genVars

\* One turn of the while loop: seq.next_element() gave Some(value). (Every JSON
\* element is a serde_json::Value, so next_element itself does not fail.)
NextElement ==
    /\ Running
    /\ st[cur] = "Reading"
    /\ ~Exhausted(index[cur], input[cur])
    /\ array_elements' = [array_elements EXCEPT
            ![cur] = StoreElement(@, index[cur], M, input[cur][index[cur] + 1])]
    /\ written' = [written EXCEPT ![cur] = @ \cup Touched(array_elements[cur], index[cur], M)]
    /\ index' = [index EXCEPT ![cur] = @ + 1]
    /\ UNCHANGED <<src, input, cur, st, fidx, partial, out>>
    /\ UNCHANGED genVars

\* seq.next_element() gave None: the loop ends.
EndOfSeq ==
    /\ Running
    /\ st[cur] = "Reading"
    /\ Exhausted(index[cur], input[cur])
    /\ st' = [st EXCEPT ![cur] = "LengthCheck"]
    /\ UNCHANGED <<src, input, cur, array_elements, index, fidx, partial, written, out>>
    /\ UNCHANGED genVars

\* if index <= max_index { return Err(invalid_length(index, &self)) }
LengthFail ==
    /\ Running
    /\ st[cur] = "LengthCheck"
    /\ TooShort(index[cur], M)
    /\ st' = [st EXCEPT ![cur] = "Error"]
    /\ out' = [out EXCEPT ![cur] = Err(InvalidLength(index[cur], M))]
    /\ UNCHANGED <<src, input, cur, array_elements, index, fidx, partial, written>>
    /\ UNCHANGED genVars

LengthOk ==
    /\ Running
    /\ st[cur] = "LengthCheck"
    /\ ~TooShort(index[cur], M)
    /\ st' = [st EXCEPT ![cur] = "FieldExtraction"]
    /\ fidx' = [fidx EXCEPT ![cur] = 1]
    /\ UNCHANGED <<src, input, cur, array_elements, index, partial, written, out>>
    /\ UNCHANGED genVars

\* One field initializer of Ok(#name { #(#field_mapping),* }), in the order written.
\* (array_elements[idx] panics outside the buffer; idx <= max_index keeps it inside.)
Extracting == Running /\ st[cur] = "FieldExtraction" /\ fidx[cur] \in DOMAIN Info
Slot == FieldSlot(Info, fidx[cur])
Conv == from_value(Info[fidx[cur]].ty, ElementAt(array_elements[cur], Slot))

ExtractOk ==
    /\ Extracting
    /\ Slot < Len(array_elements[cur])
    /\ Conv.ok
    /\ partial' = [partial EXCEPT ![cur] = @ \cup {<<Info[fidx[cur]].name, Conv.val>>}]
    /\ fidx' = [fidx EXCEPT ![cur] = @ + 1]
    /\ UNCHANGED <<src, input, cur, st, array_elements, index, written, out>>
    /\ UNCHANGED genVars

\* .map_err(|e| custom(...))? : the initializers evaluated so far are dropped.
ExtractFail ==
    /\ Extracting
    /\ Slot < Len(array_elements[cur])
    /\ ~Conv.ok
    /\ st' = [st EXCEPT ![cur] = "Error"]
    /\ partial' = [partial EXCEPT ![cur] = {}]
    /\ out' = [out EXCEPT ![cur] = Err(FieldError(Info[fidx[cur]], Conv.cause))]
    /\ UNCHANGED <<src, input, cur, array_elements, index, fidx, written>>
    /\ UNCHANGED genVars

\* Every initializer evaluated: Ok(record).
ReturnOk ==
    /\ Running
    /\ st[cur] = "FieldExtraction"
    /\ fidx[cur] = Len(Info) + 1
    /\ st' = [st EXCEPT ![cur] = "Done"]
    /\ out' = [out EXCEPT ![cur] = Ok(partial[cur])]
    /\ UNCHANGED <<src, input, cur, array_elements, index, fidx, partial, written>>
    /\ UNCHANGED genVars

\* main goes on to its next decode call (it prints the result, or unwrap panics).
NextCall ==
    /\ Running
    /\ st[cur] \in {"Done", "Error"}
    /\ cur' = cur + 1
    /\ UNCHANGED <<src, input, st, array_elements, index, fidx, partial, written, out>>
    /\ UNCHANGED genVars

Next ==
    \/ PanicMissing \/ PanicInvalid \/ PushField \/ EmitImpl \/ BuildDone
    \/ BeginVisit \/ NextElement \/ EndOfSeq \/ LengthFail \/ LengthOk
    \/ ExtractOk \/ ExtractFail \/ ReturnOk \/ NextCall

----------------------------------------------------------------------------
\* The crates and inputs the model is run on.

IdxSeqs(k) == {p \in [1..k -> DOMAIN FieldPool] : \A i, j \in 1..k : i < j => p[i] < p[j]}

\* Record types over any fields of FieldPool, each with one of the attribute lists AL.
Structs(AL) ==
    UNION {{[i \in 1..k |-> [name |-> FieldPool[p[i]].name, ty |-> FieldPool[p[i]].ty,
                             attrs |-> a[i]]] : p \in IdxSeqs(k), a \in [1..k -> AL]}
           : k \in 0..Len(FieldPool)}

Inputs == UNION {[1..n -> Values] : n \in 0..MaxLen}

Annotated == {<<OrderAttr(k)>> : k \in 0..MaxPos}
\* One #[order(n)] per field, or none, or #[order("x")].
PlainAttrs == Annotated \cup {<<>>, <<OrderStr>>}

AttrPool == {OrderAttr(0), OrderAttr(MaxPos), OrderStr, OrderNeg, OrderBig, OrderNameValue, DocAttr}
RichAttrs == {<<>>} \cup {<<a>> : a \in AttrPool} \cup {<<a, b>> : a \in AttrPool, b \in AttrPool}
\* Well-annotated record types with the attributes of one field replaced.
RichStructs ==
    UNION {{[s EXCEPT ![i].attrs = a] : i \in DOMAIN s, a \in RichAttrs} : s \in Structs(Annotated)}

SeqPerms(s) ==
    {[i \in DOMAIN s |-> s[p[i]]] :
        p \in {q \in [DOMAIN s -> DOMAIN s] : \A i, j \in DOMAIN s : q[i] = q[j] => i = j}}

Prefix(s, n) == IF Len(s) <= n THEN s ELSE SubSeq(s, 1, n)

\* The index the macro reads off a field, and the length its decoder asks for.
IndexOfField(f) ==
    IF find_order_attr(f.attrs) = None THEN None
    ELSE extract_order_index(Unwrap(find_order_attr(f.attrs)))
Accepted(s) == \A i \in DOMAIN s : IndexOfField(s[i]) # None
RequiredLen(s) ==
    IF Accepted(s)
    THEN MaxIndexOf([i \in DOMAIN s |-> [index |-> Unwrap(IndexOfField(s[i]))]]) + 1
    ELSE 0

InitWith(S, I) ==
    /\ src = S
    /\ input = I
    /\ genT = 1
    /\ genF = 1
    /\ field_info = [t \in DOMAIN S |-> <<>>]
    /\ max_index = [t \in DOMAIN S |-> 0]
    /\ impls = {}
    /\ build = "expanding"
    /\ panic = NoPanic
    /\ cur = 1
    /\ st = [t \in DOMAIN S |-> "Idle"]
    /\ array_elements = [t \in DOMAIN S |-> <<>>]
    /\ index = [t \in DOMAIN S |-> 0]
    /\ fidx = [t \in DOMAIN S |-> 1]
    /\ partial = [t \in DOMAIN S |-> {}]
    /\ written = [t \in DOMAIN S |-> {}]
    /\ out = [t \in DOMAIN S |-> Pending]

\* One record type, one decode call.
Init == \E s \in Structs(PlainAttrs), i \in Inputs : InitWith(<<s>>, <<i>>)
Spec == Init /\ [][Next]_vars

\* Two record types with the same fields in different orders, given the same input.
InitOrder == \E s \in Structs(PlainAttrs), i \in Inputs :
                \E p \in SeqPerms(s) : InitWith(<<s, p>>, <<i, i>>)
SpecOrder == InitOrder /\ [][Next]_vars

\* One record type decoded twice: an input, and that input cut after the last
\* index the type asks for.
InitExtra == \E s \in Structs(PlainAttrs), i \in Inputs :
                InitWith(<<s, s>>, <<i, Prefix(i, RequiredLen(s))>>)
SpecExtra == InitExtra /\ [][Next]_vars

\* One record type with any attributes on one of its fields.
InitSchema == \E s \in RichStructs, i \in {<<>>, <<PosInt(42), Str("Bob")>>} :
                InitWith(<<s>>, <<i>>)
SpecSchema == InitSchema /\ [][Next]_vars

----------------------------------------------------------------------------
\* The vocabulary of the properties.

Started(c) == st[c] # "Idle"
Finished(c) == st[c] \in {"Done", "Error"}
Schema(c) == field_info[c]
Positions(c) == {Schema(c)[k].index : k \in DOMAIN Schema(c)}
MaxPosition(c) == IF Positions(c) = {} THEN 0 ELSE Max(Positions(c))
Required(c) == MaxPosition(c) + 1
InputAt(c, p) == input[c][p + 1]
Supplied(c, p) == p < Len(input[c])

\* A JSON value converts to a field type.
Converts(ty, v) ==
    \/ ty = "i32" /\ v.kind = "PosInt"
    \/ ty = "f64" /\ v.kind \in {"PosInt", "Float"}
    \/ ty = "String" /\ v.kind = "String"

\* A field value is the JSON value v, read at the type of the field.
Denotes(tv, v) ==
    \/ tv.ty = "i32" /\ v.kind = "PosInt" /\ tv.n = v.n /\ tv.frac = 0
    \/ tv.ty = "f64" /\ v.kind \in {"PosInt", "Float"} /\ tv.n = v.n /\ tv.frac = v.frac
    \/ tv.ty = "String" /\ v.kind = "String" /\ tv.s = v.s

FieldConverts(c, k) == Converts(Schema(c)[k].ty, InputAt(c, Schema(c)[k].index))
AllConvert(c) == \A k \in DOMAIN Schema(c) : FieldConverts(c, k)
Failing(c) == {k \in DOMAIN Schema(c) : ~FieldConverts(c, k)}

\* The returned record has exactly the fields of the schema, each with the input
\* element at its position.
RecordFromInput(c) ==
    /\ out[c].tag = "Ok"
    /\ {e[1] : e \in out[c].value} = {Schema(c)[k].name : k \in DOMAIN Schema(c)}
    /\ \A k \in DOMAIN Schema(c) : \A e \in out[c].value :
            e[1] = Schema(c)[k].name => Denotes(e[2], InputAt(c, Schema(c)[k].index))

\* A call that has started and not ended can take a step.
Advances(c) == (build = "ok" /\ cur = c /\ ~Finished(c)) => ENABLED Next

----------------------------------------------------------------------------
\* C1: an input of exactly maxPosition + 1 elements whose mapped elements all
\* convert is decoded to Done, and every field of the record holds the input
\* element at the position the field declares.
ExactLengthDecodes ==
    \A c \in Types :
        (Started(c) /\ Len(input[c]) = Required(c) /\ AllConvert(c)) =>
            /\ st[c] # "Error"
            /\ Advances(c)
            /\ Finished(c) => (st[c] = "Done" /\ RecordFromInput(c))

\* A three-field type whose positions run against the declaration order has decoded.
ExactLengthDecoded ==
    \E c \in Types :
        /\ st[c] = "Done"
        /\ Len(input[c]) = Required(c)
        /\ Len(Schema(c)) = 3
        /\ Schema(c)[1].index > Schema(c)[2].index
        /\ Cardinality(out[c].value) = 3

\* C2: an input of fewer than maxPosition + 1 elements ends in Error with
\* invalid_length, got = the elements consumed and expecting maxPosition + 1,
\* whatever the elements are; no field is converted and no record is returned.
ShortInputFails ==
    \A c \in Types :
        (Started(c) /\ Len(input[c]) < Required(c)) =>
            /\ st[c] \in {"Reading", "LengthCheck", "Error"}
            /\ Advances(c)
            /\ partial[c] = {}
            /\ out[c].tag # "Ok"
            /\ out[c].err.kind # "custom"
            /\ Finished(c) =>
                  /\ index[c] = Len(input[c])
                  /\ out[c].tag = "Err"
                  /\ out[c].err.kind = "invalid_length"
                  /\ out[c].err.got = Len(input[c])
                  /\ out[c].err.need = Required(c)

\* A short input with an element that does not convert at a mapped position has failed.
ShortInputFailed ==
    \E c \in Types :
        /\ st[c] = "Error"
        /\ Len(input[c]) < Required(c)
        /\ \E k \in DOMAIN Schema(c) :
              Supplied(c, Schema(c)[k].index) /\ ~FieldConverts(c, k)

\* C3: two types with the same field-to-position mapping, declared in different
\* orders, decode the same input to field-wise equal records (and one returns
\* a record exactly when the other does).
SameMapping(a, b) ==
    /\ Range(Schema(a)) = Range(Schema(b))
    /\ Len(Schema(a)) = Len(Schema(b))
    /\ input[a] = input[b]
OrderIndependent ==
    \A a \in Types : \A b \in Types :
        (Finished(a) /\ Finished(b) /\ SameMapping(a, b)) =>
            /\ out[a].tag = out[b].tag
            /\ out[a].value = out[b].value

\* Two types that differ in declaration order have both returned a record.
OrderIndependentDecoded ==
    \E a \in Types : \E b \in Types :
        /\ st[a] = "Done" /\ st[b] = "Done"
        /\ SameMapping(a, b)
        /\ Schema(a) # Schema(b)
        /\ out[a].value # {}

\* C4: two inputs of at least maxPosition + 1 elements that agree at positions
\* 0..maxPosition get the same outcome from the same type, whatever follows.
\* (Every such input agrees with its own first maxPosition + 1 elements, so
\* equality with the outcome for those settles any two of them.)
AgreeUpToMax(a, b) ==
    /\ src[a] = src[b]
    /\ Len(input[a]) >= Required(a)
    /\ Len(input[b]) >= Required(b)
    /\ \A p \in 0..MaxPosition(a) : InputAt(a, p) = InputAt(b, p)
ExtraElementsIgnored ==
    \A a \in Types : \A b \in Types :
        (Finished(a) /\ Finished(b) /\ AgreeUpToMax(a, b)) => out[a] = out[b]

\* An input with trailing elements and its cut have both been decoded to a record.
ExtraElementsDecoded ==
    \E a \in Types : \E b \in Types :
        /\ Finished(a) /\ Finished(b)
        /\ AgreeUpToMax(a, b)
        /\ Len(input[a]) > Len(input[b])
        /\ out[b].tag = "Ok"
        /\ out[b].value # {}

\* C5: with positions no field maps to, an input of at least maxPosition + 1
\* elements whose mapped elements all convert is decoded to Done whatever the
\* unmapped positions hold, and an error never names an unmapped position.
Unmapped(c) == (0..MaxPosition(c)) \ Positions(c)
SparseDecodes ==
    \A c \in Types :
        (Started(c) /\ Unmapped(c) # {} /\ Len(input[c]) >= Required(c)) =>
            /\ out[c].err.kind = "custom" => out[c].err.index \in Positions(c)
            /\ AllConvert(c) =>
                  /\ st[c] # "Error"
                  /\ Advances(c)
                  /\ Finished(c) => (st[c] = "Done" /\ out[c].tag = "Ok")

\* A type with fields and an unmapped position holding null has decoded.
SparseDecoded ==
    \E c \in Types :
        /\ st[c] = "Done"
        /\ Schema(c) # <<>>
        /\ \E p \in Unmapped(c) : InputAt(c, p) = Null

\* C6: once the loop has ended (LengthCheck, FieldExtraction, Done, Error) the
\* running index is the number of elements of the input, trailing ones
\* included, and the buffer holds only the elements at 0..maxPosition.
AfterLoop(c) == st[c] \in {"LengthCheck", "FieldExtraction", "Done", "Error"}
ConsumedSoFar(c) ==
    /\ Started(c) => index[c] <= Len(input[c])
    /\ AfterLoop(c) =>
          /\ index[c] = Len(input[c])
          /\ Len(array_elements[c]) = Required(c)
          /\ written[c] \subseteq 0..MaxPosition(c)
          /\ \A p \in 0..MaxPosition(c) :
                array_elements[c][p + 1] = IF Supplied(c, p) THEN InputAt(c, p) ELSE Null
\* The index moves by one element at a time, in Reading only, and never after the loop.
OneAtATime(c) ==
    /\ index'[c] \in {index[c], index[c] + 1}
    /\ index'[c] # index[c] => (st[c] = "Reading" /\ st'[c] = "Reading")
    /\ AfterLoop(c) => (AfterLoop(c)' /\ array_elements'[c] = array_elements[c])
FullyConsumed ==
    /\ [](\A c \in Types : ConsumedSoFar(c))
    /\ [][\A c \in Types : OneAtATime(c)]_vars

\* A call has ended on an input with elements after maxPosition.
TrailingConsumed ==
    \E c \in Types :
        /\ Finished(c)
        /\ Len(input[c]) > Required(c)
        /\ index[c] = Len(input[c])

\* C7: when a mapped element of a long enough input does not convert, the call
\* ends in Error naming the first failing field in declaration order and its
\* position, and no record, partial or whole, is returned.
FirstFailing(c) == CHOOSE k \in Failing(c) : \A j \in Failing(c) : k <= j
AllOrNothing ==
    \A c \in Types :
        (Started(c) /\ Len(input[c]) >= Required(c) /\ Failing(c) # {}) =>
            /\ st[c] # "Done"
            /\ Advances(c)
            /\ out[c].tag # "Ok"
            /\ out[c].value = {}
            /\ Finished(c) =>
                  /\ partial[c] = {}
                  /\ out[c].tag = "Err"
                  /\ out[c].err.kind = "custom"
                  /\ out[c].err.field = Schema(c)[FirstFailing(c)].name
                  /\ out[c].err.index = Schema(c)[FirstFailing(c)].index

\* A call has failed after converting a field, with two failing fields of which
\* the one declared first has the larger position.
FirstDeclaredReported ==
    \E c \in Types :
        /\ st[c] = "Error"
        /\ Len(input[c]) >= Required(c)
        /\ FirstFailing(c) > 1
        /\ \E j \in Failing(c) : Schema(c)[j].index < Schema(c)[FirstFailing(c)].index

\* C8: a field without an order attribute, or with an order attribute whose
\* payload is not a non-negative integer literal, aborts the expansion for its
\* type: no impl is generated, no decode call starts, no index is given to the field.
NonNegativeIntPayload(a) == a.meta = "List" /\ a.lit = "Int" /\ ~a.neg
OrderAttrs(f) == {f.attrs[i] : i \in {j \in DOMAIN f.attrs : f.attrs[j].path = "order"}}
BadlyAnnotated(f) ==
    \/ OrderAttrs(f) = {}
    \/ \E a \in OrderAttrs(f) : ~NonNegativeIntPayload(a)
SchemaErrorsAbort ==
    \A t \in Types : \A k \in DOMAIN src[t] :
        BadlyAnnotated(src[t][k]) =>
            /\ t \notin impls
            /\ ~Started(t)
            /\ \A j \in DOMAIN field_info[t] : field_info[t][j].name # src[t][k].name
            /\ build # "expanding" => (build = "panic" /\ panic.field = src[t][k].name)

\* C9: a type without fields has max_index 0: the empty input fails with
\* invalid_length (got 0, expecting 1) and any longer input gives the empty record.
EmptySchema ==
    \A c \in Types :
        (src[c] = <<>> /\ Started(c)) =>
            /\ max_index[c] = 0
            /\ Advances(c)
            /\ Finished(c) =>
                  IF input[c] = <<>>
                  THEN /\ st[c] = "Error"
                       /\ out[c].tag = "Err"
                       /\ out[c].err.kind = "invalid_length"
                       /\ out[c].err.got = 0
                       /\ out[c].err.need = 1
                  ELSE /\ st[c] = "Done"
                       /\ out[c] = Ok({})

\* A type without fields has decoded a non-empty input.
EmptySchemaDecoded ==
    \E c \in Types : src[c] = <<>> /\ st[c] = "Done" /\ input[c] # <<>>

\* C10: the buffer has maxPosition + 1 slots and is read and written inside
\* them; from FieldExtraction on every slot has been assigned the input element
\* of its index, so every field of a record comes from a supplied element.
Extracted(c) == st[c] \in {"FieldExtraction", "Done"} \/ out[c].err.kind = "custom"
NoDefaultLeaks ==
    \A c \in Types :
        /\ Started(c) =>
              /\ Len(array_elements[c]) = Required(c)
              /\ written[c] \subseteq 0..MaxPosition(c)
              /\ \A p \in Positions(c) : p + 1 \in DOMAIN array_elements[c]
        /\ Extracted(c) =>
              /\ written[c] = 0..MaxPosition(c)
              /\ \A p \in 0..MaxPosition(c) :
                    Supplied(c, p) /\ array_elements[c][p + 1] = InputAt(c, p)
        /\ out[c].tag = "Ok" => RecordFromInput(c)

\* Field extraction has begun on a buffer of several slots, one of them holding
\* a null that the input supplied.
SuppliedNullStored ==
    \E c \in Types :
        /\ st[c] = "FieldExtraction"
        /\ MaxPosition(c) >= 1
        /\ \E p \in 0..MaxPosition(c) : InputAt(c, p) = Null /\ p \in written[c]

====
